---- MODULE Spec2Model ----
(***************************************************************************)
(* Model of src/train.py: train(), train_epoch(), validate_epoch() and the *)
(* __main__ entry point.  One action per statement group; the model, the   *)
(* loss function and the optimizer are inputs of train() and are modelled  *)
(* by the outcomes they can produce (a loss value, a number of correct     *)
(* predictions, or an exception).  Floats are modelled as exact rationals  *)
(* <<numerator, denominator>> in lowest terms.                             *)
(***************************************************************************)
EXTENDS Integers, Sequences, FiniteSets, TLC

\* ------------------------------------------------------------------ bounds
MaxEpochs == 2
MaxBatches == 2

\* ------------------------------------------------------- program constants
BATCH_SIZE == 128

VARIABLES
    pc,               \* position of the single thread of control
    caller,           \* "main": the __main__ block calls train(); "direct": a caller of train()
    epochs,           \* train(): epochs
    train_dataloader, \* train(): [supplied, len]: len(train_dataloader) batches
    test_dataloader,  \* train(): test_dataloader=None or a loader of len batches
    outcomes,         \* what the supplied model/loss_fn can produce for a batch
    i,                \* train(): loop index of `for i in range(epochs)`
    b,                \* number of batches the current epoch's iterator has yielded
    training_acc, training_loss, testing_acc, testing_loss,   \* train(): the four lists
    epoch_ret,        \* value returned by the last train_epoch / validate_epoch call
    acc_loss, acc_acc, total,   \* train_loss/test_loss, train_acc/test_acc, total locals
    output, loss,     \* locals of the batch loop
    mode,             \* model.training: "train" or "eval"
    grad_enabled,     \* torch.is_grad_enabled()
    prev_grad,        \* value saved by torch.no_grad().__enter__
    params,           \* version of the model parameters (number of updates applied)
    grads,            \* batches whose gradients are accumulated in the .grad fields
    wandb_log,        \* sequence of wandb.log() emissions
    ret,              \* value returned by train()
    label_mapping,    \* model.label_mapping attribute attached?
    artifact,         \* file written by torch.save
    exc,              \* exception in flight ("none" when there is none)
    \* history variables (not program state)
    batch_log,        \* batches processed by the current epoch call, in order
    ops,              \* operations performed on the current batch, in order
    opt_steps,        \* number of optimizer.step() calls that returned
    te_done, ve_done, \* completed train_epoch / validate_epoch calls
    at_call,          \* params and grad mode when validate_epoch was entered
    in_val_grad,      \* a forward pass of validate_epoch recorded a graph
    fault             \* snapshot taken where the exception was raised

vars == <<pc, caller, epochs, train_dataloader, test_dataloader, outcomes, i, b,
          training_acc, training_loss, testing_acc, testing_loss, epoch_ret,
          acc_loss, acc_acc, total, output, loss, mode, grad_enabled, prev_grad,
          params, grads, wandb_log, ret, label_mapping, artifact, exc,
          batch_log, ops, opt_steps, te_done, ve_done, at_call, in_val_grad, fault>>

\* ------------------------------------------------------------ float values
RECURSIVE GCD(_, _)
GCD(x, y) == IF y = 0 THEN x ELSE GCD(y, x % y)

Rat(n, d) == IF n = 0 THEN <<0, 1>> ELSE <<n \div GCD(n, d), d \div GCD(n, d)>>

Zero == Rat(0, 1)

\* x + y
FAdd(x, y) == Rat(x[1] * y[2] + y[1] * x[2], x[2] * y[2])

\* faulty variant of FDiv: the sum divided by the number of examples
FDivByExamples(x, n) == Rat(x[1], x[2] * n * BATCH_SIZE)

\* x / n for an int n > 0 (n = 0 raises ZeroDivisionError, see TrAppend)
FDiv(x, n) == Rat(x[1], x[2] * n)

\* ---------------------------------------------------------------- inputs
None == [supplied |-> FALSE, len |-> 0]
Loader(n) == [supplied |-> TRUE, len |-> n]

\* bool(test_dataloader): None is falsy, and a DataLoader defines __len__
\* and no __bool__, so it is truthy exactly when it has at least one batch.
Truthy(dl) == dl.supplied /\ dl.len > 0

\* What a batch gives: loss.item(), (prediction == target).sum().item() and
\* len(prediction).  A batch holds BATCH_SIZE examples, or fewer when it is
\* the remainder of the dataset.
Outcome(l, c, n) == [loss |-> l, correct |-> c, len |-> n]

SmallOutcomes == {Outcome(1, BATCH_SIZE, BATCH_SIZE),
                  Outcome(2, BATCH_SIZE \div 4, BATCH_SIZE \div 2)}

ScenarioOutcomes == {Outcome(1, BATCH_SIZE, BATCH_SIZE),
                     Outcome(2, BATCH_SIZE \div 2, BATCH_SIZE),
                     Outcome(3, BATCH_SIZE \div 2, BATCH_SIZE),
                     Outcome(4, 0, BATCH_SIZE)}

NoOutput == [correct |-> 0, len |-> 0, graph |-> FALSE]
NoLoss == [value |-> 0, graph |-> FALSE]
NoRet == <<>>
NoFault == [exc |-> "none", params |-> 0, log |-> <<>>, hist |-> <<>>, steps |-> 0,
            pos |-> <<0, 0>>, at |-> "none"]
NoCall == [params |-> 0, grad |-> FALSE, active |-> FALSE]

History == <<training_acc, training_loss, testing_acc, testing_loss>>

\* ------------------------------------------------------- variable groups
inputs == <<caller, epochs, train_dataloader, test_dataloader, outcomes>>
lists == <<training_acc, training_loss, testing_acc, testing_loss>>
locals == <<acc_loss, acc_acc, total, output, loss>>
torch == <<mode, grad_enabled, prev_grad, params, grads>>
outs == <<wandb_log, ret, label_mapping, artifact>>
hist == <<batch_log, ops, opt_steps, te_done, ve_done, at_call, in_val_grad>>

\* ------------------------------------------------------------------ Init
Fresh ==
    /\ pc = "start"
    /\ i = 0 /\ b = 0
    /\ training_acc = <<>> /\ training_loss = <<>>
    /\ testing_acc = <<>> /\ testing_loss = <<>>
    /\ epoch_ret = NoRet
    /\ acc_loss = Zero /\ acc_acc = Zero /\ total = 0
    /\ output = NoOutput /\ loss = NoLoss
    /\ prev_grad = FALSE
    /\ params = 0 /\ grads = {}
    /\ wandb_log = <<>> /\ ret = NoRet
    /\ label_mapping = FALSE /\ artifact = <<>>
    /\ exc = "none"
    /\ batch_log = <<>> /\ ops = <<>> /\ opt_steps = 0
    /\ te_done = 0 /\ ve_done = 0
    /\ at_call = NoCall /\ in_val_grad = FALSE /\ fault = NoFault

\* The __main__ block: a new CNNetwork (training mode), the process default
\* grad mode, and train() called with EPOCHS (a positive number, 10 in the
\* source, here any positive number up to the bound) and without a
\* test_dataloader (line 139).
\* A direct caller of train() may pass a test_dataloader and any model.
Callers ==
    \/ /\ caller = "main"
       /\ epochs >= 1
       /\ test_dataloader = None
       /\ mode = "train" /\ grad_enabled = TRUE
    \/ /\ caller = "direct"
       /\ test_dataloader \in {None} \cup {Loader(n) : n \in 0..MaxBatches}
       /\ mode \in {"train", "eval"}
       /\ grad_enabled \in BOOLEAN

InitSmall ==
    /\ epochs \in 0..MaxEpochs
    /\ train_dataloader \in {Loader(n) : n \in 0..MaxBatches}
    /\ outcomes = SmallOutcomes
    /\ Callers
    /\ Fresh

\* One epoch over four batches with losses in 1..4 and accuracy fractions
\* in {0, 1/2, 1}.
InitScenario ==
    /\ epochs = 1
    /\ train_dataloader = Loader(4)
    /\ outcomes = ScenarioOutcomes
    /\ caller \in {"main", "direct"}
    /\ test_dataloader \in (IF caller = "main" THEN {None} ELSE {None, Loader(4)})
    /\ mode = "train" /\ grad_enabled = TRUE
    /\ Fresh

Init == InitSmall \/ InitScenario

\* ------------------------------------------------------------ exceptions
\* An exception is raised at position pc and starts to propagate from `at`.
Raise(e, at) ==
    /\ exc' = e
    /\ pc' = at
    /\ fault' = [exc |-> e, params |-> params, log |-> wandb_log,
                 hist |-> History, steps |-> opt_steps, pos |-> <<i, b>>, at |-> pc]

\* ------------------------------------------------------------ entry point
\* lines 109-139: set-up, then train(model, train_dataloader, ..., EPOCHS)
MainCallTrain ==
    /\ pc = "start" /\ caller = "main"
    /\ pc' = "loop"
    /\ UNCHANGED <<inputs, i, b, lists, epoch_ret, locals, torch, outs, exc, hist, fault>>

\* a direct call of train(); lines 25-28 leave the four lists empty
CallTrain ==
    /\ pc = "start" /\ caller = "direct"
    /\ pc' = "loop"
    /\ UNCHANGED <<inputs, i, b, lists, epoch_ret, locals, torch, outs, exc, hist, fault>>

\* line 141: model.label_mapping = train_dataset.label_mapping
MainAttach ==
    /\ pc = "main_attach"
    /\ label_mapping' = TRUE
    /\ pc' = "main_save"
    /\ UNCHANGED <<inputs, i, b, lists, epoch_ret, locals, torch, wandb_log, ret,
                   artifact, exc, hist, fault>>

\* model.state_dict(): the parameters (and buffers) only; attributes set on
\* the module object, such as label_mapping, are not part of it.
StateDict == [params |-> params]

\* lines 144-148: torch.save(model.state_dict(), model_filename)
MainSave ==
    /\ pc = "main_save"
    /\ artifact' = <<StateDict>>
    /\ pc' = "main_finish"
    /\ UNCHANGED <<inputs, i, b, lists, epoch_ret, locals, torch, wandb_log, ret,
                   label_mapping, exc, hist, fault>>

\* line 149: wandb.finish()
MainFinish ==
    /\ pc = "main_finish"
    /\ pc' = "done"
    /\ UNCHANGED <<inputs, i, b, lists, epoch_ret, locals, torch, outs, exc, hist, fault>>

\* ---------------------------------------------------------------- train()
\* line 30: for i in range(epochs)
LoopHead ==
    /\ pc = "loop"
    /\ pc' = IF i < epochs THEN "te_entry" ELSE "train_return"
    /\ UNCHANGED <<inputs, i, b, lists, epoch_ret, locals, torch, outs, exc, hist, fault>>

\* faulty variant of TrainReturnValue: the losses before the accuracies
TrainReturnLossFirst == <<training_loss, training_acc, testing_loss, testing_acc>>

\* line 57: the tuple train() returns
TrainReturnValue == <<training_acc, training_loss, testing_acc, testing_loss>>

TrainReturn ==
    /\ pc = "train_return"
    /\ ret' = TrainReturnValue
    /\ pc' = IF caller = "main" THEN "main_attach" ELSE "done"
    /\ UNCHANGED <<inputs, i, b, lists, epoch_ret, locals, torch, wandb_log,
                   label_mapping, artifact, exc, hist, fault>>

\* lines 37-38: the epoch's sums divided by len(train_dataloader); a float
\* divided by the int 0 raises ZeroDivisionError before anything is appended
TrAppend ==
    /\ pc = "tr_append"
    /\ IF train_dataloader.len = 0
       THEN /\ Raise("ZeroDivisionError", "raised_train")
            /\ UNCHANGED lists
       ELSE /\ training_loss' = Append(training_loss, FDiv(epoch_ret[1], train_dataloader.len))
            /\ training_acc' = Append(training_acc, FDiv(epoch_ret[2], train_dataloader.len))
            /\ pc' = "tr_log"
            /\ UNCHANGED <<testing_acc, testing_loss, exc, fault>>
    /\ UNCHANGED <<inputs, i, b, epoch_ret, locals, torch, outs, hist>>

\* lines 40-41: wandb.log({'training_loss': ..., 'training_acc': ...})
TrLog ==
    /\ pc = "tr_log"
    /\ wandb_log' = Append(wandb_log, [training_loss |-> training_loss[i + 1],
                                       training_acc |-> training_acc[i + 1]])
    /\ pc' = "tr_test"
    /\ UNCHANGED <<inputs, i, b, lists, epoch_ret, locals, torch, ret, label_mapping,
                   artifact, exc, hist, fault>>

\* line 43: if test_dataloader:
TrTest ==
    /\ pc = "tr_test"
    /\ pc' = IF Truthy(test_dataloader) THEN "ve_entry" ELSE "tr_next"
    /\ UNCHANGED <<inputs, i, b, lists, epoch_ret, locals, torch, outs, exc, hist, fault>>

\* lines 48-49
TsAppend ==
    /\ pc = "ts_append"
    /\ IF test_dataloader.len = 0
       THEN /\ Raise("ZeroDivisionError", "raised_train")
            /\ UNCHANGED lists
       ELSE /\ testing_loss' = Append(testing_loss, FDiv(epoch_ret[1], test_dataloader.len))
            /\ testing_acc' = Append(testing_acc, FDiv(epoch_ret[2], test_dataloader.len))
            /\ pc' = "ts_log"
            /\ UNCHANGED <<training_acc, training_loss, exc, fault>>
    /\ UNCHANGED <<inputs, i, b, epoch_ret, locals, torch, outs, hist>>

\* lines 51-52: wandb.log({'testing_loss': ..., 'testing_acc': ...})
TsLog ==
    /\ pc = "ts_log"
    /\ wandb_log' = Append(wandb_log, [testing_loss |-> testing_loss[i + 1],
                                       testing_acc |-> testing_acc[i + 1]])
    /\ pc' = "tr_next"
    /\ UNCHANGED <<inputs, i, b, lists, epoch_ret, locals, torch, ret, label_mapping,
                   artifact, exc, hist, fault>>

\* line 54 and the next iteration of the for loop
TrNext ==
    /\ pc = "tr_next"
    /\ i' = i + 1
    /\ pc' = "loop"
    /\ UNCHANGED <<inputs, b, lists, epoch_ret, locals, torch, outs, exc, hist, fault>>

\* ---------------------------------------------------------- train_epoch()
\* faulty variant of SetTrainMode: model.train() left out
KeepMode(m) == m

\* line 65: model.train()
SetTrainMode(m) == "train"

\* lines 61-65
TeEntry ==
    /\ pc = "te_entry"
    /\ acc_loss' = Zero /\ acc_acc' = Zero /\ total' = 0
    /\ mode' = SetTrainMode(mode)
    /\ b' = 0
    /\ batch_log' = <<>> /\ ops' = <<>>
    /\ pc' = "te_iter"
    /\ UNCHANGED <<inputs, i, lists, epoch_ret, output, loss, grad_enabled, prev_grad,
                   params, grads, outs, exc, opt_steps, te_done, ve_done, at_call,
                   in_val_grad, fault>>

\* line 67: the iterator yields the next batch, or is exhausted
TeIter ==
    /\ pc = "te_iter"
    /\ IF b < train_dataloader.len
       THEN /\ b' = b + 1
            /\ ops' = <<>>
            /\ pc' = "te_forward"
       ELSE /\ pc' = "te_return"
            /\ UNCHANGED <<b, ops>>
    /\ UNCHANGED <<inputs, i, lists, epoch_ret, locals, torch, outs, exc, batch_log,
                   opt_steps, te_done, ve_done, at_call, in_val_grad, fault>>

\* model(wav): the logits of the batch (here: how many of its predictions are
\* right and the loss they give), with a graph exactly when grad mode is on
Forward(o) == [correct |-> o.correct, len |-> o.len, lossval |-> o.loss,
               graph |-> grad_enabled]

\* lines 68, 71: output = model(wav); the model may raise
TeForward ==
    /\ pc = "te_forward"
    /\ \/ /\ \E o \in outcomes : output' = Forward(o)
          /\ ops' = Append(ops, "forward")
          /\ pc' = "te_loss"
          /\ UNCHANGED <<exc, fault>>
       \/ /\ Raise("ModelError", "raised_te")
          /\ UNCHANGED <<output, ops>>
    /\ UNCHANGED <<inputs, i, b, lists, epoch_ret, acc_loss, acc_acc, total, loss, torch,
                   outs, batch_log, opt_steps, te_done, ve_done, at_call, in_val_grad>>

\* loss_fn(output, target)
LossOf(out) == [value |-> out.lossval, graph |-> out.graph]

\* line 72: loss = loss_fn(output, target); the loss function may raise
TeLoss ==
    /\ pc = "te_loss"
    /\ \/ /\ loss' = LossOf(output)
          /\ ops' = Append(ops, "loss")
          /\ pc' = "te_zero_grad"
          /\ UNCHANGED <<exc, fault>>
       \/ /\ Raise("LossError", "raised_te")
          /\ UNCHANGED <<loss, ops>>
    /\ UNCHANGED <<inputs, i, b, lists, epoch_ret, acc_loss, acc_acc, total, output, torch,
                   outs, batch_log, opt_steps, te_done, ve_done, at_call, in_val_grad>>

\* faulty variant of ZeroGrad: optimizer.zero_grad() left out
ZeroGradSkipped(g) == g

\* optimizer.zero_grad(): no gradient is left accumulated
ZeroGrad(g) == {}

\* line 75
TeZeroGrad ==
    /\ pc = "te_zero_grad"
    /\ grads' = ZeroGrad(grads)
    /\ ops' = Append(ops, "zero_grad")
    /\ pc' = "te_backward"
    /\ UNCHANGED <<inputs, i, b, lists, epoch_ret, locals, mode, grad_enabled, prev_grad,
                   params, outs, exc, batch_log, opt_steps, te_done, ve_done, at_call,
                   in_val_grad, fault>>

\* line 76: loss.backward() adds this batch's gradients to the .grad fields;
\* a loss computed with grad mode off has no graph and backward() raises
TeBackward ==
    /\ pc = "te_backward"
    /\ IF loss.graph
       THEN /\ grads' = grads \cup {<<i, b>>}
            /\ ops' = Append(ops, "backward")
            /\ pc' = "te_step"
            /\ UNCHANGED <<exc, fault>>
       ELSE /\ Raise("RuntimeError", "raised_te")
            /\ UNCHANGED <<grads, ops>>
    /\ UNCHANGED <<inputs, i, b, lists, epoch_ret, locals, mode, grad_enabled, prev_grad,
                   params, outs, batch_log, opt_steps, te_done, ve_done, at_call,
                   in_val_grad>>

\* line 77: optimizer.step() updates the parameters once; the optimizer may raise
TeStep ==
    /\ pc = "te_step"
    /\ \/ /\ params' = params + 1
          /\ opt_steps' = opt_steps + 1
          /\ ops' = Append(ops, "step")
          /\ pc' = "te_metrics"
          /\ UNCHANGED <<exc, fault>>
       \/ /\ Raise("OptimizerError", "raised_te")
          /\ UNCHANGED <<params, opt_steps, ops>>
    /\ UNCHANGED <<inputs, i, b, lists, epoch_ret, locals, mode, grad_enabled, prev_grad,
                   grads, outs, batch_log, te_done, ve_done, at_call, in_val_grad>>

\* lines 82, 103: (prediction == target).sum().item() / len(prediction)
BatchAccuracy(out) == Rat(out.correct, out.len)

LogEntry == [batch |-> b, loss |-> loss.value, correct |-> output.correct, len |-> output.len]

\* lines 80-83
TeMetrics ==
    /\ pc = "te_metrics"
    /\ acc_loss' = FAdd(acc_loss, Rat(loss.value, 1))
    /\ acc_acc' = FAdd(acc_acc, BatchAccuracy(output))
    /\ total' = total + 1
    /\ ops' = Append(ops, "metrics")
    /\ batch_log' = Append(batch_log, LogEntry)
    /\ pc' = "te_iter"
    /\ UNCHANGED <<inputs, i, b, lists, epoch_ret, output, loss, torch, outs, exc,
                   opt_steps, te_done, ve_done, at_call, in_val_grad, fault>>

\* line 85: return train_loss, train_acc (the frame's locals are gone)
TeReturn ==
    /\ pc = "te_return"
    /\ epoch_ret' = <<acc_loss, acc_acc>>
    /\ output' = NoOutput /\ loss' = NoLoss
    /\ te_done' = te_done + 1
    /\ pc' = "tr_append"
    /\ UNCHANGED <<inputs, i, b, lists, acc_loss, acc_acc, total, torch, outs, exc,
                   batch_log, ops, opt_steps, ve_done, at_call, in_val_grad, fault>>

\* ------------------------------------------------------- validate_epoch()
\* lines 88-94: model.eval(); with torch.no_grad(): saves the grad mode and
\* switches it off
VeEntry ==
    /\ pc = "ve_entry"
    /\ acc_loss' = Zero /\ acc_acc' = Zero /\ total' = 0
    /\ mode' = "eval"
    /\ prev_grad' = grad_enabled
    /\ grad_enabled' = FALSE
    /\ b' = 0
    /\ batch_log' = <<>> /\ ops' = <<>>
    /\ at_call' = [params |-> params, grad |-> grad_enabled, active |-> TRUE]
    /\ pc' = "ve_iter"
    /\ UNCHANGED <<inputs, i, lists, epoch_ret, output, loss, params, grads, outs, exc,
                   opt_steps, te_done, ve_done, in_val_grad, fault>>

\* line 95
VeIter ==
    /\ pc = "ve_iter"
    /\ IF b < test_dataloader.len
       THEN /\ b' = b + 1
            /\ ops' = <<>>
            /\ pc' = "ve_forward"
       ELSE /\ pc' = "ve_exit"
            /\ UNCHANGED <<b, ops>>
    /\ UNCHANGED <<inputs, i, lists, epoch_ret, locals, torch, outs, exc, batch_log,
                   opt_steps, te_done, ve_done, at_call, in_val_grad, fault>>

\* lines 96, 98
VeForward ==
    /\ pc = "ve_forward"
    /\ \/ /\ \E o \in outcomes : output' = Forward(o)
          /\ in_val_grad' = (in_val_grad \/ output'.graph)
          /\ ops' = Append(ops, "forward")
          /\ pc' = "ve_loss"
          /\ UNCHANGED <<exc, fault>>
       \/ /\ Raise("ModelError", "raised_ve")
          /\ UNCHANGED <<output, ops, in_val_grad>>
    /\ UNCHANGED <<inputs, i, b, lists, epoch_ret, acc_loss, acc_acc, total, loss, torch,
                   outs, batch_log, opt_steps, te_done, ve_done, at_call>>

\* line 99
VeLoss ==
    /\ pc = "ve_loss"
    /\ \/ /\ loss' = LossOf(output)
          /\ in_val_grad' = (in_val_grad \/ loss'.graph)
          /\ ops' = Append(ops, "loss")
          /\ pc' = "ve_metrics"
          /\ UNCHANGED <<exc, fault>>
       \/ /\ Raise("LossError", "raised_ve")
          /\ UNCHANGED <<loss, ops, in_val_grad>>
    /\ UNCHANGED <<inputs, i, b, lists, epoch_ret, acc_loss, acc_acc, total, output, torch,
                   outs, batch_log, opt_steps, te_done, ve_done, at_call>>

\* faulty variant of VeMetrics: validate_epoch also takes an optimizer step
VeMetricsStep ==
    /\ pc = "ve_metrics"
    /\ acc_loss' = FAdd(acc_loss, Rat(loss.value, 1))
    /\ acc_acc' = FAdd(acc_acc, BatchAccuracy(output))
    /\ total' = total + 1
    /\ params' = params + 1
    /\ opt_steps' = opt_steps + 1
    /\ ops' = Append(ops, "metrics")
    /\ batch_log' = Append(batch_log, LogEntry)
    /\ pc' = "ve_iter"
    /\ UNCHANGED <<inputs, i, b, lists, epoch_ret, output, loss, mode, grad_enabled,
                   prev_grad, grads, outs, exc, te_done, ve_done, at_call, in_val_grad,
                   fault>>

\* lines 101-104
VeMetrics ==
    /\ pc = "ve_metrics"
    /\ acc_loss' = FAdd(acc_loss, Rat(loss.value, 1))
    /\ acc_acc' = FAdd(acc_acc, BatchAccuracy(output))
    /\ total' = total + 1
    /\ ops' = Append(ops, "metrics")
    /\ batch_log' = Append(batch_log, LogEntry)
    /\ pc' = "ve_iter"
    /\ UNCHANGED <<inputs, i, b, lists, epoch_ret, output, loss, torch, outs, exc,
                   opt_steps, te_done, ve_done, at_call, in_val_grad, fault>>

\* faulty variant of NoGradExit: grad mode is left off
NoGradExitOff(prev) == FALSE

\* torch.no_grad().__exit__: the grad mode saved on entry is set again
NoGradExit(prev) == prev

\* end of the with block (line 94) and line 106: return test_loss, test_acc
VeExit ==
    /\ pc = "ve_exit"
    /\ grad_enabled' = NoGradExit(prev_grad)
    /\ epoch_ret' = <<acc_loss, acc_acc>>
    /\ output' = NoOutput /\ loss' = NoLoss
    /\ ve_done' = ve_done + 1
    /\ pc' = "ts_append"
    /\ UNCHANGED <<inputs, i, b, lists, acc_loss, acc_acc, total, mode, prev_grad, params,
                   grads, outs, exc, batch_log, ops, opt_steps, te_done, at_call,
                   in_val_grad, fault>>

\* ------------------------------------------------- exception propagation
\* train_epoch (lines 60-85) has no handler: the exception leaves its frame
UnwindTrainEpoch ==
    /\ pc = "raised_te"
    /\ pc' = "raised_train"
    /\ UNCHANGED <<inputs, i, b, lists, epoch_ret, locals, torch, outs, exc, hist, fault>>

\* validate_epoch (lines 87-106) has no handler; leaving the with block of
\* line 94 runs torch.no_grad().__exit__
UnwindValidateEpoch ==
    /\ pc = "raised_ve"
    /\ grad_enabled' = NoGradExit(prev_grad)
    /\ pc' = "raised_train"
    /\ UNCHANGED <<inputs, i, b, lists, epoch_ret, locals, mode, prev_grad, params, grads,
                   outs, exc, hist, fault>>

\* faulty variant of UnwindTrain: the epoch loop catches the exception and
\* goes on with the next epoch
UnwindTrainRetry ==
    /\ pc = "raised_train"
    /\ exc' = "none"
    /\ pc' = "tr_next"
    /\ UNCHANGED <<inputs, i, b, lists, epoch_ret, locals, torch, outs, hist, fault>>

\* train (lines 24-57) has no handler: the exception leaves train(), which
\* returns nothing
UnwindTrain ==
    /\ pc = "raised_train"
    /\ pc' = IF caller = "main" THEN "raised_main" ELSE "aborted"
    /\ UNCHANGED <<inputs, i, b, lists, epoch_ret, locals, torch, outs, exc, hist, fault>>

\* the __main__ block (lines 138-149) has no handler: the process ends with
\* the exception, lines 141-149 are not run
UnwindMain ==
    /\ pc = "raised_main"
    /\ pc' = "aborted"
    /\ UNCHANGED <<inputs, i, b, lists, epoch_ret, locals, torch, outs, exc, hist, fault>>

\* ------------------------------------------------------------------ Next
Next ==
    \/ MainCallTrain \/ CallTrain \/ MainAttach \/ MainSave \/ MainFinish
    \/ LoopHead \/ TrainReturn \/ TrAppend \/ TrLog \/ TrTest
    \/ TsAppend \/ TsLog \/ TrNext
    \/ TeEntry \/ TeIter \/ TeForward \/ TeLoss \/ TeZeroGrad \/ TeBackward
    \/ TeStep \/ TeMetrics \/ TeReturn
    \/ VeEntry \/ VeIter \/ VeForward \/ VeLoss \/ VeMetrics \/ VeExit
    \/ UnwindTrainEpoch \/ UnwindValidateEpoch \/ UnwindTrain \/ UnwindMain

Spec == Init /\ [][Next]_vars

\* ================================================================ claims
TePcs == {"te_iter", "te_forward", "te_loss", "te_zero_grad", "te_backward",
          "te_step", "te_metrics", "te_return"}
VePcs == {"ve_iter", "ve_forward", "ve_loss", "ve_metrics", "ve_exit"}
RaisedPcs == {"raised_te", "raised_ve", "raised_train", "raised_main", "aborted"}

Returned == ret # NoRet

\* the values emitted under `key`, in the order of emission
RECURSIVE Emitted(_, _)
Emitted(log, key) ==
    IF log = <<>> THEN <<>>
    ELSE IF key \in DOMAIN Head(log)
         THEN <<Head(log)[key]>> \o Emitted(Tail(log), key)
         ELSE Emitted(Tail(log), key)

\* sum of the logged per-batch losses (an integer)
RECURSIVE SumLoss(_)
SumLoss(log) == IF log = <<>> THEN 0 ELSE Head(log).loss + SumLoss(Tail(log))

\* least common multiple of the logged batch lengths
RECURSIVE CommonLen(_)
CommonLen(log) ==
    IF log = <<>> THEN 1
    ELSE LET r == CommonLen(Tail(log))
             h == Head(log).len
         IN  (h * r) \div GCD(h, r)

RECURSIVE SumOver(_, _)
SumOver(log, d) ==
    IF log = <<>> THEN 0
    ELSE Head(log).correct * (d \div Head(log).len) + SumOver(Tail(log), d)

\* sum of the logged per-batch fractions correct/len, as a fraction
\* <<numerator, denominator>> over the common denominator
SumFractions(log) == <<SumOver(log, CommonLen(log)), CommonLen(log)>>

\* the float x is the fraction f, and is x times n the fraction f
Is(x, f) == x[1] * f[2] = f[1] * x[2]
IsMean(x, f, n) == n * x[1] * f[2] = f[1] * x[2]

\* C1: when train() has returned, the training-loss and training-accuracy
\* lists each hold exactly `epochs` entries, and the testing lists each hold
\* `epochs` entries if a test_dataloader was supplied (whatever its number
\* of batches) and are empty if none was.
C1_HistoryLengths ==
    Returned =>
        /\ Len(training_loss) = epochs /\ Len(training_acc) = epochs
        /\ test_dataloader.supplied => (Len(testing_loss) = epochs /\ Len(testing_acc) = epochs)
        /\ ~test_dataloader.supplied => (testing_loss = <<>> /\ testing_acc = <<>>)

\* C2: when train() has returned, wandb.log was called 2*epochs times if a
\* test_dataloader was supplied and epochs times if not; the emissions carry
\* the keys {training_loss, training_acc} and, after each of them when a
\* test_dataloader was supplied, {testing_loss, testing_acc}.
C2_Emissions ==
    Returned =>
        IF test_dataloader.supplied
        THEN /\ Len(wandb_log) = 2 * epochs
             /\ \A k \in 1..Len(wandb_log) :
                    DOMAIN wandb_log[k] = IF k % 2 = 1 THEN {"training_loss", "training_acc"}
                                          ELSE {"testing_loss", "testing_acc"}
        ELSE /\ Len(wandb_log) = epochs
             /\ \A k \in 1..Len(wandb_log) :
                    DOMAIN wandb_log[k] = {"training_loss", "training_acc"}

\* C3: in train_epoch and validate_epoch the accumulators are the sums of the
\* per-batch losses and of the per-batch fractions correct/len (each in
\* [0,1]) of the batches processed so far; the call returns these sums over
\* all n batches; train() appends and emits exactly the sums divided by the
\* number of batches n.
C3_SumsAndMeans ==
    /\ pc \in TePcs \cup VePcs =>
        /\ \A k \in 1..Len(batch_log) :
               batch_log[k].len >= 1 /\ batch_log[k].correct \in 0..batch_log[k].len
        /\ Is(acc_loss, <<SumLoss(batch_log), 1>>)
        /\ Is(acc_acc, SumFractions(batch_log))
    /\ pc \in {"tr_append", "ts_append"} =>
        /\ Len(batch_log) = (IF pc = "tr_append" THEN train_dataloader.len ELSE test_dataloader.len)
        /\ Is(epoch_ret[1], <<SumLoss(batch_log), 1>>)
        /\ Is(epoch_ret[2], SumFractions(batch_log))
    /\ pc \in {"tr_log", "tr_test"} =>
        /\ Len(training_loss) = i + 1 /\ Len(training_acc) = i + 1
        /\ IsMean(training_loss[i + 1], <<SumLoss(batch_log), 1>>, Len(batch_log))
        /\ IsMean(training_acc[i + 1], SumFractions(batch_log), Len(batch_log))
    /\ pc = "tr_test" =>
        wandb_log[Len(wandb_log)] = [training_loss |-> training_loss[i + 1],
                           training_acc |-> training_acc[i + 1]]
    /\ pc = "ts_log" \/ (pc = "tr_next" /\ Truthy(test_dataloader)) =>
        /\ Len(testing_loss) = i + 1 /\ Len(testing_acc) = i + 1
        /\ IsMean(testing_loss[i + 1], <<SumLoss(batch_log), 1>>, Len(batch_log))
        /\ IsMean(testing_acc[i + 1], SumFractions(batch_log), Len(batch_log))
    /\ pc = "tr_next" /\ Truthy(test_dataloader) =>
        wandb_log[Len(wandb_log)] = [testing_loss |-> testing_loss[i + 1],
                           testing_acc |-> testing_acc[i + 1]]

\* four batches with losses 1, 2, 3, 4 and fractions 1, 1/2, 1/2, 0 gave the
\* sums 10 and 2 and the epoch's metrics 5/2 and 1/2
C3_Witness ==
    /\ pc = "tr_test"
    /\ [k \in 1..Len(batch_log) |-> batch_log[k].loss] = <<1, 2, 3, 4>>
    /\ [k \in 1..Len(batch_log) |-> batch_log[k].correct] = <<128, 64, 64, 0>>
    /\ epoch_ret = <<<<10, 1>>, <<2, 1>>>>
    /\ training_loss = << <<5, 2>> >> /\ training_acc = << <<1, 2>> >>
    /\ wandb_log = << [training_loss |-> <<5, 2>>, training_acc |-> <<1, 2>>] >>

\* the exception in flight was raised inside validate_epoch's batch loop
RaisedInValidate == fault.exc # "none" /\ fault.at \in VePcs

\* C4: the parameters change only in optimizer.step() of train_epoch: they
\* always are the result of exactly the optimizer steps taken, and from the
\* entry of validate_epoch to its exit, by return or by exception, they are
\* the parameters of the entry.
C4_ParamsFrame ==
    /\ params = opt_steps
    /\ pc \in VePcs \cup {"ts_append"} \/ RaisedInValidate =>
           at_call.active /\ params = at_call.params

\* validate_epoch returned after two batches, on parameters already updated
C4_Witness ==
    /\ pc = "ts_append"
    /\ Len(batch_log) >= 2
    /\ params >= 1 /\ params = at_call.params

\* C5: grad mode is off at every forward pass and loss computation of
\* validate_epoch, so none of them records a graph; when validate_epoch is
\* left, by return or by an exception of any batch, grad mode is what it was
\* at the call, and the forward passes of the next train_epoch record a
\* graph again.
C5_NoGradScope ==
    /\ pc \in VePcs => ~grad_enabled
    /\ ~in_val_grad
    /\ pc \in {"ve_loss", "ve_metrics"} => ~output.graph
    /\ pc = "ve_metrics" => ~loss.graph
    /\ pc = "ts_append" => grad_enabled = at_call.grad
    /\ RaisedInValidate /\ pc # "raised_ve" => grad_enabled = at_call.grad
    /\ ve_done >= 1 /\ pc \in {"te_loss", "te_zero_grad", "te_backward", "te_step"} =>
           grad_enabled /\ output.graph

\* the train_epoch that follows a validate_epoch has computed gradients
C5_Witness ==
    /\ pc = "te_step" /\ ve_done >= 1
    /\ grad_enabled /\ loss.graph /\ grads = {<<i, b>>}

\* C6: once an exception is raised it stays the same exception and only
\* propagates: no batch is started, the parameters, the optimizer-step count,
\* the four lists and the emissions stay what they were at the raise,
\* train() returns nothing, and the entry point attaches and saves nothing.
C6_FailFast ==
    /\ fault.exc # "none" =>
        /\ exc = fault.exc
        /\ pc \in RaisedPcs
        /\ <<i, b>> = fault.pos
        /\ params = fault.params /\ opt_steps = fault.steps
        /\ History = fault.hist
        /\ wandb_log = fault.log
        /\ ret = NoRet
        /\ ~label_mapping /\ artifact = <<>>
    /\ pc \in RaisedPcs => exc # "none"

\* the optimizer raised in the second epoch of a run of the entry point
C6_Witness ==
    /\ pc = "aborted" /\ caller = "main"
    /\ exc = "OptimizerError"
    /\ i = 1 /\ params >= 1 /\ Len(wandb_log) = 1
    /\ artifact = <<>>

\* C7: when a run of the entry point is done, the model carries the label
\* mapping and the saved artifact holds the label mapping and the parameters.
C7_LabelMappingSaved ==
    pc = "done" /\ caller = "main" =>
        /\ label_mapping
        /\ Len(artifact) = 1
        /\ {"params", "label_mapping"} \subseteq DOMAIN artifact[1]

\* C8 as stated: the returned tuple is (training loss, training accuracy,
\* testing loss, testing accuracy), as emitted epoch by epoch.
C8_OrderAsStated ==
    Returned =>
        /\ ret[1] = Emitted(wandb_log, "training_loss")
        /\ ret[2] = Emitted(wandb_log, "training_acc")
        /\ ret[3] = Emitted(wandb_log, "testing_loss")
        /\ ret[4] = Emitted(wandb_log, "testing_acc")

\* C8 amended: the returned tuple is (training accuracy, training loss,
\* testing accuracy, testing loss): each component is the list of the values
\* emitted under its key, one per epoch (none for the testing lists when no
\* validation ran).
C8_OrderAccFirst ==
    Returned =>
        /\ Len(ret) = 4
        /\ ret[1] = Emitted(wandb_log, "training_acc")
        /\ ret[2] = Emitted(wandb_log, "training_loss")
        /\ ret[3] = Emitted(wandb_log, "testing_acc")
        /\ ret[4] = Emitted(wandb_log, "testing_loss")
        /\ Len(ret[1]) = epochs /\ Len(ret[2]) = epochs
        /\ Len(ret[3]) = Len(ret[4])
        /\ Len(ret[3]) = (IF Truthy(test_dataloader) THEN epochs ELSE 0)

\* a run of two epochs with validation whose accuracies and losses differ
C8_Witness ==
    /\ Returned /\ epochs = 2
    /\ Len(ret[1]) = 2 /\ Len(ret[3]) = 2
    /\ ret[1] # ret[2] /\ ret[3] # ret[4]

BatchOps == <<"forward", "loss", "zero_grad", "backward", "step", "metrics">>

\* C9: train_epoch processes the batches 1..n once each and in order; on each
\* batch it runs forward, loss, zero_grad, backward, step, metrics in this
\* order; at optimizer.step() the accumulated gradients are those of the
\* current batch alone; a returned run has taken epochs * n optimizer steps.
C9_BatchSteps ==
    /\ pc \in TePcs =>
        /\ ops = SubSeq(BatchOps, 1, Len(ops))
        /\ [k \in 1..Len(batch_log) |-> batch_log[k].batch] = [k \in 1..Len(batch_log) |-> k]
        /\ Len(batch_log) = (IF pc \in {"te_iter", "te_return"} THEN b ELSE b - 1)
        /\ opt_steps = i * train_dataloader.len + Len(batch_log)
                         + (IF pc = "te_metrics" THEN 1 ELSE 0)
    /\ pc = "te_iter" /\ b >= 1 => ops = BatchOps
    /\ pc = "te_return" => Len(batch_log) = train_dataloader.len
    /\ pc \in {"te_step", "te_metrics"} => grads = {<<i, b>>}
    /\ Returned => opt_steps = epochs * train_dataloader.len

\* two epochs over two batches each have returned after four optimizer steps
C9_Witness ==
    /\ Returned /\ epochs = 2 /\ train_dataloader.len = 2
    /\ opt_steps = 4 /\ params = 4

\* C10: the model is in training mode in train_epoch's batch loop and in
\* evaluation mode in validate_epoch's and on its return; validate_epoch of
\* epoch i starts after train_epoch i and the training emission of epoch i,
\* and train_epoch of epoch i+1 starts after validate_epoch of epoch i and
\* its emission.
C10_ModesAndOrder ==
    /\ pc \in TePcs => mode = "train"
    /\ pc \in VePcs \cup {"ts_append"} => mode = "eval"
    /\ pc \in TePcs \cup {"te_entry"} =>
        /\ te_done = i
        /\ ve_done = (IF Truthy(test_dataloader) THEN i ELSE 0)
        /\ Len(wandb_log) = te_done + ve_done
    /\ pc \in VePcs \cup {"ve_entry"} =>
        /\ te_done = i + 1 /\ ve_done = i
        /\ Len(wandb_log) = 2 * i + 1
        /\ DOMAIN wandb_log[Len(wandb_log)] = {"training_loss", "training_acc"}
    /\ pc = "te_entry" /\ i >= 1 /\ Truthy(test_dataloader) =>
        DOMAIN wandb_log[Len(wandb_log)] = {"testing_loss", "testing_acc"}

\* the second epoch trains in training mode after the first one's validation
C10_Witness ==
    /\ pc = "te_step" /\ i = 1
    /\ ve_done = 1 /\ mode = "train"

====
